---- MODULE Spec2Model ----
(***************************************************************************)
(* A model of the roux Reddit client: the OAuth password-grant login of    *)
(* RedditClient, the request builders RedditClient::get / post, the        *)
(* facades Me, Subreddit, User and Subreddits built on them, the URL       *)
(* construction each operation performs and the decoding of the two        *)
(* comment-listing wire shapes.                                            *)
(*                                                                         *)
(* Strings whose characters matter (subreddit names, article ids, URL path *)
(* segments) are sequences of one-character strings, so that string        *)
(* formatting, splitting on "/" and substring search are computed.         *)
(* Option<T> is a sequence of length 0 (None) or 1 (Some).                 *)
(***************************************************************************)
EXTENDS Integers, Sequences, FiniteSets, TLC

VARIABLES reddit, facade, last

vars == <<reddit, facade, last>>

----------------------------------------------------------------------------
(* Bounds of the model. *)

MaxArrayLen == 2

----------------------------------------------------------------------------
(* Option<T> *)

None == <<>>
Some(v) == <<v>>
IsSome(o) == Len(o) = 1
Unwrap(o) == o[1]

----------------------------------------------------------------------------
(* Character strings *)

S_r == <<"r">>
S_slash == <<"/">>
S_comments == <<"c", "o", "m", "m", "e", "n", "t", "s">>
S_rust == <<"r", "u", "s", "t">>
S_t3 == <<"t", "3">>
S_dotjson == <<".", "j", "s", "o", "n">>
S_hot == <<"h", "o", "t">>
S_rising == <<"r", "i", "s", "i", "n", "g">>
S_top == <<"t", "o", "p">>
S_new == <<"n", "e", "w">>
S_about == <<"a", "b", "o", "u", "t">>
S_moderators == <<"m", "o", "d", "e", "r", "a", "t", "o", "r", "s">>
S_user == <<"u", "s", "e", "r">>
S_overview == <<"o", "v", "e", "r", "v", "i", "e", "w">>
S_submitted == <<"s", "u", "b", "m", "i", "t", "t", "e", "d">>
S_saved == <<"s", "a", "v", "e", "d">>
S_upvoted == <<"u", "p", "v", "o", "t", "e", "d">>
S_downvoted == <<"d", "o", "w", "n", "v", "o", "t", "e", "d">>
S_api == <<"a", "p", "i">>
S_v1 == <<"v", "1">>
S_me == <<"m", "e">>
S_message == <<"m", "e", "s", "s", "a", "g", "e">>
S_inbox == <<"i", "n", "b", "o", "x">>
S_unread == <<"u", "n", "r", "e", "a", "d">>
S_search == <<"s", "e", "a", "r", "c", "h", ".", "j", "s", "o", "n">>
S_subreddits == <<"s", "u", "b", "r", "e", "d", "d", "i", "t", "s">>
S_alice == <<"a", "l", "i", "c", "e">>

\* s[i..] starts with p
StartsWithAt(s, p, i) ==
    /\ i + Len(p) - 1 <= Len(s)
    /\ \A j \in 1..Len(p) : s[i + j - 1] = p[j]

\* str::contains
Contains(s, p) == \E i \in 1..(Len(s) + 1) : StartsWithAt(s, p, i)

\* The pieces of s between the occurrences of the character c.
RECURSIVE SplitOn(_, _)
SplitOn(s, c) ==
    IF \A i \in 1..Len(s) : s[i] # c
    THEN <<s>>
    ELSE LET i == CHOOSE k \in 1..Len(s) :
                      s[k] = c /\ \A j \in 1..(k - 1) : s[j] # c
         IN  <<SubSeq(s, 1, i - 1)>> \o SplitOn(SubSeq(s, i + 1, Len(s)), c)

\* The segments joined, each preceded by "/".
RECURSIVE Slashed(_)
Slashed(segs) ==
    IF segs = <<>> THEN <<>>
    ELSE S_slash \o Head(segs) \o Slashed(Tail(segs))

----------------------------------------------------------------------------
(* Url: scheme, host, path segments, query pairs *)

Pair(k, v) == [k |-> k, v |-> v]

RawJson == Pair("raw_json", "1")

\* Url::parse of "https://<host><path>", path a character string starting
\* with "/", without "?", "#" or dot segments.
UrlParse(host, path) ==
    [scheme |-> "https", host |-> host,
     path |-> Tail(SplitOn(path, "/")), query |-> <<>>]

\* Url::parse_with_params
UrlParseWithParams(host, path, params) ==
    [UrlParse(host, path) EXCEPT !.query = params]

\* Url::path
UrlPath(url) == Slashed(url.path)

\* A setter that replaces the query by the new pair (Url::set_query).
AppendPair_SetQuery(url, k, v) == [url EXCEPT !.query = <<Pair(k, v)>>]

\* url.query_pairs_mut().append_pair(k, v)
AppendPair(url, k, v) == [url EXCEPT !.query = Append(@, Pair(k, v))]

\* Url::join with a relative path reference (no "?", no "#", no leading
\* "/"): the base's last path segment and the base's query are dropped.
UrlJoin(url, rel) ==
    [url EXCEPT !.path = SubSeq(@, 1, Len(@) - 1) \o SplitOn(rel, "/"),
                !.query = <<>>]

\* JoinSegmentsExt::join_segments
join_segments(url, segments) ==
    LET popped == IF Len(url.path) > 0 /\ url.path[Len(url.path)] = <<>>
                  THEN SubSeq(url.path, 1, Len(url.path) - 1)
                  ELSE url.path
    IN  [url EXCEPT !.path = popped \o segments]

----------------------------------------------------------------------------
(* Config and the values it is built from *)

UA_roux == <<"r", "o", "u", "x", "/", "r", "u", "s", "t">>
UA_app == <<"a", "p", "p">>
UA_bad == <<"a", "\n">>

UserAgents == {UA_app, UA_bad}
Usernames == {S_alice}
Passwords == {"hunter2"}
Tokens == {"tok1", "tok2"}
ErrorCodes == {"invalid_grant"}

\* config::Config::new: the application identity, no user and no token.
ConfigNew(user_agent) ==
    [user_agent |-> user_agent, username |-> None, password |-> None,
     access_token |-> None]

\* util::defaults::default_client
default_client == ConfigNew(UA_roux)

\* header::HeaderValue::from_str(s).is_ok(): visible ASCII only.
HeaderValueOk(s) == \A i \in 1..Len(s) : s[i] # "\n"

----------------------------------------------------------------------------
(* Requests *)

Header(name, value) == [name |-> name, value |-> value]

HasHeader(req, name) == \E i \in 1..Len(req.headers) : req.headers[i].name = name

BearerOf(token) == Header("authorization", <<"Bearer", token>>)
BasicOf == Header("authorization", <<"Basic", "client_id:client_secret">>)

\* The part shared by RedditClient::get and RedditClient::post once the
\* user agent has been accepted as a header value.
Builder(cfg, method, url) ==
    [method |-> method, url |-> url, form |-> FALSE,
     headers |-> <<Header("user-agent", cfg.user_agent)>>
                 \o (IF IsSome(cfg.access_token)
                     THEN <<BearerOf(Unwrap(cfg.access_token))>>
                     ELSE <<>>)]

\* A get that never attaches the session's token.
get_NoBearer(cfg, url) ==
    [method |-> "GET", url |-> url, form |-> FALSE,
     headers |-> <<Header("user-agent", cfg.user_agent)>>]

\* RedditClient::get; defined when HeaderValueOk(cfg.user_agent).
get(cfg, url) == Builder(cfg, "GET", url)

\* RedditClient::post; defined when HeaderValueOk(cfg.user_agent).
post(cfg, url) == Builder(cfg, "POST", url)

\* RequestBuilder::basic_auth
basic_auth(req) == [req EXCEPT !.headers = Append(@, BasicOf)]

\* RequestBuilder::form
form(req) == [req EXCEPT !.form = TRUE]

\* util::url::build_url
build_url(dest) ==
    UrlParse("www.reddit.com", S_slash \o dest \o S_slash \o S_dotjson)

\* util::url::build_oauth
build_oauth(dest) ==
    UrlParse("oauth.reddit.com", S_slash \o dest \o S_slash \o S_dotjson)

----------------------------------------------------------------------------
(* Responses *)

Listings == {"L1", "L2"}

Body(shape, token, error, listing, items) ==
    [shape |-> shape, access_token |-> token, error |-> error,
     listing |-> listing, items |-> items]

Garbage == Body("garbage", None, None, None, <<>>)

\* JSON objects a token endpoint can answer with.
AuthBodies ==
    { Body("object", t, e, None, <<>>) :
        t \in {None} \cup {Some(x) : x \in Tokens},
        e \in {None} \cup {Some(x) : x \in ErrorCodes} }

\* A JSON object that is one listing.
ListingBody(l) == Body("object", None, None, Some(l), <<>>)

\* A JSON array of listings.
ArrayBody(items) == Body("array", None, None, None, items)

SeqsUpTo(S, n) == UNION { [1..k -> S] : k \in 0..n }

CommentBodies ==
    {ListingBody(l) : l \in Listings}
    \cup {ArrayBody(items) : items \in SeqsUpTo(Listings, MaxArrayLen)}

\* Statuses the token endpoint and the data endpoints answer with.
AuthStatuses == {200, 201, 403}
DataStatuses == {200, 403, 500}
RevokeStatuses == {200, 204, 403}

TransportFailure == [net |-> "failed", status |-> 0, body |-> Garbage]
NotSent == [net |-> "none", status |-> 0, body |-> Garbage]

Answered(status, body) == [net |-> "answered", status |-> status, body |-> body]

AuthResponses ==
    {TransportFailure}
    \cup {Answered(s, b) : s \in AuthStatuses, b \in AuthBodies \cup {Garbage}}

\* Answers to a request for one JSON document.
DataResponses ==
    {TransportFailure}
    \cup {Answered(s, b) : s \in DataStatuses, b \in {ListingBody("L1"), Garbage}}

\* Answers of the revoke_token endpoint.
RevokeResponses ==
    {TransportFailure} \cup {Answered(s, Garbage) : s \in RevokeStatuses}

\* Answers to a request for comments.
CommentResponses ==
    {TransportFailure}
    \cup {Answered(s, b) : s \in DataStatuses, b \in CommentBodies \cup {Garbage}}

----------------------------------------------------------------------------
(* Results *)

Result(kind, err, val, status) ==
    [kind |-> kind, err |-> err, val |-> val, status |-> status]

Ok(val) == Result("Ok", "none", val, 0)
OkResponse(resp) == Result("Ok", "none", "response", resp.status)
Panicked == Result("Panic", "none", "unwrap", 0)
ErrStatus(resp) == Result("Err", "Status", "response", resp.status)
ErrAuth(error) == Result("Err", "Auth", error, 0)

\* RouxError from a reqwest::Error (`?`): a failed send, a failed body
\* decode, or the error made by Response::error_for_status.
FromReqwest(cause, resp) ==
    CASE cause = "send" -> Result("Err", "Transport", cause, 0)
      [] cause = "decode" -> Result("Err", "Parse", cause, 0)
      [] cause = "status" -> Result("Err", "Status", cause, resp.status)

\* Response::error_for_status(): Err for 4xx and 5xx.
IsErrorStatus(status) == status >= 400 /\ status <= 599

----------------------------------------------------------------------------
(* serde *)

\* A decoder that takes the first string field of the object for the token.
AuthResponse_AnyField(body) ==
    IF body.shape = "object" /\ IsSome(body.access_token)
    THEN [ok |-> TRUE, variant |-> "AuthData", value |-> Unwrap(body.access_token)]
    ELSE IF body.shape = "object" /\ IsSome(body.error)
    THEN [ok |-> TRUE, variant |-> "AuthData", value |-> Unwrap(body.error)]
    ELSE [ok |-> FALSE, variant |-> "none", value |-> "none"]

\* A decoder that tries ErrorData { error } before AuthData { access_token }.
AuthResponse_ErrorFirst(body) ==
    IF body.shape = "object" /\ IsSome(body.error)
    THEN [ok |-> TRUE, variant |-> "ErrorData", value |-> Unwrap(body.error)]
    ELSE IF body.shape = "object" /\ IsSome(body.access_token)
    THEN [ok |-> TRUE, variant |-> "AuthData", value |-> Unwrap(body.access_token)]
    ELSE [ok |-> FALSE, variant |-> "none", value |-> "none"]

\* response.json::<AuthResponse>(): the untagged enum takes the first
\* variant that matches, AuthData { access_token } then ErrorData { error }.
AuthResponse(body) ==
    IF body.shape = "object" /\ IsSome(body.access_token)
    THEN [ok |-> TRUE, variant |-> "AuthData", value |-> Unwrap(body.access_token)]
    ELSE IF body.shape = "object" /\ IsSome(body.error)
    THEN [ok |-> TRUE, variant |-> "ErrorData", value |-> Unwrap(body.error)]
    ELSE [ok |-> FALSE, variant |-> "none", value |-> "none"]

\* response.json::<T>() for a listing type T (Comments, Submissions, ...):
\* Some(listing) when the body is one listing object.
JsonListing(body) ==
    IF body.shape = "object" /\ IsSome(body.listing) THEN body.listing ELSE None

\* response.json::<Vec<Comments>>(): Some(items) when the body is an array.
JsonVec(body) ==
    IF body.shape = "array" THEN Some(body.items) ELSE None

----------------------------------------------------------------------------
(* FeedOption *)

FeedOption(limit, after, before, count, period) ==
    [limit |-> limit, after |-> after, before |-> before, count |-> count,
     period |-> period]

\* A build_url that writes the cursor before the limit.
FeedOptionBuildUrl_AfterFirst(options, url) ==
    LET u1 == IF IsSome(options.after)
              THEN AppendPair(url, "after", Unwrap(options.after)) ELSE url
        u2 == IF IsSome(options.limit)
              THEN AppendPair(u1, "limit", ToString(Unwrap(options.limit)))
              ELSE u1
        u3 == IF IsSome(options.before)
              THEN AppendPair(u2, "before", Unwrap(options.before)) ELSE u2
        u4 == IF IsSome(options.count)
              THEN AppendPair(u3, "count", ToString(Unwrap(options.count)))
              ELSE u3
    IN  IF IsSome(options.period)
        THEN AppendPair(u4, "t", Unwrap(options.period)) ELSE u4

\* FeedOption::build_url: one query pair for each field that is set.
FeedOptionBuildUrl(options, url) ==
    LET u1 == IF IsSome(options.limit)
              THEN AppendPair(url, "limit", ToString(Unwrap(options.limit)))
              ELSE url
        u2 == IF IsSome(options.after)
              THEN AppendPair(u1, "after", Unwrap(options.after)) ELSE u1
        u3 == IF IsSome(options.before)
              THEN AppendPair(u2, "before", Unwrap(options.before)) ELSE u2
        u4 == IF IsSome(options.count)
              THEN AppendPair(u3, "count", ToString(Unwrap(options.count)))
              ELSE u3
    IN  IF IsSome(options.period)
        THEN AppendPair(u4, "t", Unwrap(options.period)) ELSE u4

\* `if let Some(options) = options { options.build_url(&mut url); }`
WithOptions(options, url) ==
    IF IsSome(options) THEN FeedOptionBuildUrl(Unwrap(options), url) ELSE url

----------------------------------------------------------------------------
(* Inputs *)

SubredditNames == {S_rust, S_comments}
ArticleIds == {S_t3}
SearchTerms == {"rust"}
Limits == {25}
Depths == {2}
OptLimits == {None} \cup {Some(n) : n \in Limits}
\* (depth, limit) of a comment feed
CommentWindows == {<<None, None>>} \cup {<<Some(d), Some(l)>> : d \in Depths, l \in Limits}
FeedOptions ==
    { FeedOption(Some(25), Some("t3_abc"), None, None, None),
      FeedOption(None, None, Some("t3_abc"), Some(10), Some("month")) }
OptFeedOptions == {None} \cup {Some(o) : o \in FeedOptions}

----------------------------------------------------------------------------
(* What one call did: the requests it sent, the response it was given,    *)
(* the value it returned, the token it stored in its session (lib.rs      *)
(* line 212), the object it handed to its caller and, for a comment feed, *)
(* the decoding branch it took.                                           *)

Did(op, reqs, resp, out) ==
    [op |-> op, reqs |-> reqs, resp |-> resp, out |-> out,
     stored |-> None, handed |-> "none", mode |-> "none"]

\* The call panicked before a request was built.
PanicsUnsent(op) == Did(op, <<>>, NotSent, Panicked)

\* A step that is no network operation (a constructor, a setter, a drop).
Local(op) == Did(op, <<>>, NotSent, Ok("unit"))

----------------------------------------------------------------------------
(* RedditClient::login *)

S_access_token == <<"a", "p", "i", "/", "v", "1", "/", "a", "c", "c", "e", "s", "s", "_", "t", "o", "k", "e", "n">>

\* A token endpoint that takes every 2xx status for a success.
LoginStatusOk_Any2xx(status) == status >= 200 /\ status <= 299

\* RedditClient::login: `response.status() == 200`
LoginStatusOk(status) == status = 200

RedditClientLogin(cfg, resp) ==
    IF ~IsSome(cfg.username) \/ ~IsSome(cfg.password)
    THEN PanicsUnsent("login")
    ELSE IF ~HeaderValueOk(cfg.user_agent)
    THEN PanicsUnsent("login")
    ELSE LET request == form(basic_auth(post(cfg, build_url(S_access_token))))
             auth_data == AuthResponse(resp.body)
         IN  IF resp.net = "failed"
             THEN Did("login", <<request>>, resp, FromReqwest("send", resp))
             ELSE IF LoginStatusOk(resp.status)
             THEN IF ~auth_data.ok
                  THEN Did("login", <<request>>, resp, FromReqwest("decode", resp))
                  ELSE IF auth_data.variant = "AuthData"
                  THEN [Did("login", <<request>>, resp, Ok("client"))
                           EXCEPT !.stored = Some(auth_data.value)]
                  ELSE Did("login", <<request>>, resp, ErrAuth(auth_data.value))
             ELSE Did("login", <<request>>, resp, ErrStatus(resp))

\* The configuration of the RedditClient that login returns in Ok.
LoggedIn(cfg, did) == [cfg EXCEPT !.access_token = did.stored]

----------------------------------------------------------------------------
(* Facades *)

\* Subreddit::new / Subreddit::new_oauth: the subreddit's base URL.
SubredditUrl(name) ==
    UrlParseWithParams("www.reddit.com", S_slash \o S_r \o S_slash \o name \o S_slash,
                       <<RawJson>>)

\* Subreddit::new_oauth
new_oauth(name, cfg) ==
    [kind |-> "Subreddit", cfg |-> cfg, name |-> name, url |-> SubredditUrl(name)]

\* Subreddit::new
SubredditNew(name) ==
    [kind |-> "Subreddit", cfg |-> default_client, name |-> name,
     url |-> SubredditUrl(name)]

\* Me::new
MeNew(cfg) ==
    [kind |-> "Me", cfg |-> cfg, name |-> <<>>,
     url |-> UrlParse("oauth.reddit.com", S_slash)]

\* User::new
UserNew(user) ==
    [kind |-> "User", cfg |-> default_client, name |-> user,
     url |-> UrlParse("www.reddit.com", S_slash \o S_user \o S_slash)]

----------------------------------------------------------------------------
(* State *)

\* The application holds no result: it is between two calls.
Idle == Local("idle")

Init ==
    /\ reddit = None
    /\ facade = None
    /\ last = Idle

\* The application makes its calls one after the other: it takes the result
\* of a call before it makes the next one.
Ready == last = Idle

\* The application takes the result of the call it made.
TakeResult ==
    /\ last # Idle
    /\ last' = Idle
    /\ UNCHANGED <<reddit, facade>>

IsKind(kind) == IsSome(facade) /\ Unwrap(facade).kind = kind
Self == Unwrap(facade)

----------------------------------------------------------------------------
(* Reddit *)

\* Reddit::new
RedditNew ==
    /\ Ready
    /\ reddit = None
    /\ \E user_agent \in UserAgents :
          /\ reddit' = Some(ConfigNew(user_agent))
          /\ last' = Local("Reddit::new")
          /\ UNCHANGED facade

\* Reddit::username
RedditUsername ==
    /\ Ready
    /\ IsSome(reddit)
    /\ \E username \in Usernames :
          /\ reddit' = Some([Unwrap(reddit) EXCEPT !.username = Some(username)])
          /\ last' = Local("Reddit::username")
          /\ UNCHANGED facade

\* Reddit::password
RedditPassword ==
    /\ Ready
    /\ IsSome(reddit)
    /\ \E password \in Passwords :
          /\ reddit' = Some([Unwrap(reddit) EXCEPT !.password = Some(password)])
          /\ last' = Local("Reddit::password")
          /\ UNCHANGED facade

\* Reddit::create_client: what the call did; on Ok the Reddit it returns
\* holds LoggedIn(cfg, did).
create_client(cfg, resp) == RedditClientLogin(cfg, resp)

\* Reddit::login: consumes the Reddit; on Ok hands a Me to the caller.
RedditLogin ==
    /\ Ready
    /\ IsSome(reddit)
    /\ facade = None
    /\ \E resp \in AuthResponses :
          /\ LET did == create_client(Unwrap(reddit), resp)
             IN  /\ reddit' = None
                 /\ IF did.out.kind = "Ok"
                    THEN /\ facade' = Some(MeNew(LoggedIn(Unwrap(reddit), did)))
                         /\ last' = [did EXCEPT !.op = "Reddit::login", !.handed = "Me"]
                    ELSE /\ facade' = facade
                         /\ last' = [did EXCEPT !.op = "Reddit::login"]

\* Reddit::subreddit: consumes the Reddit; on Ok hands a Subreddit to the caller.
RedditSubreddit ==
    /\ Ready
    /\ IsSome(reddit)
    /\ facade = None
    /\ \E name \in SubredditNames, resp \in AuthResponses :
          /\ LET did == create_client(Unwrap(reddit), resp)
             IN  /\ reddit' = None
                 /\ IF did.out.kind = "Ok"
                    THEN /\ facade' = Some(new_oauth(name, LoggedIn(Unwrap(reddit), did)))
                         /\ last' = [did EXCEPT !.op = "Reddit::subreddit", !.handed = "Subreddit"]
                    ELSE /\ facade' = facade
                         /\ last' = [did EXCEPT !.op = "Reddit::subreddit"]

\* A client_login whose new token reaches the facade made from this Reddit.
RedditClientLoginOp_SharedSession ==
    /\ Ready
    /\ IsSome(reddit)
    /\ \E resp \in AuthResponses :
          LET did == create_client(Unwrap(reddit), resp)
          IN  IF did.out.kind = "Ok"
              THEN /\ reddit' = Some(LoggedIn(Unwrap(reddit), did))
                   /\ last' = [did EXCEPT !.op = "Reddit::client_login", !.handed = "Reddit"]
                   /\ facade' = IF IsSome(facade)
                                THEN Some([Unwrap(facade) EXCEPT !.cfg.access_token = did.stored])
                                ELSE facade
              ELSE /\ reddit' = None
                   /\ last' = [did EXCEPT !.op = "Reddit::client_login"]
                   /\ UNCHANGED facade

\* Reddit::client_login: consumes the Reddit; on Ok returns it, logged in.
RedditClientLoginOp ==
    /\ Ready
    /\ IsSome(reddit)
    /\ \E resp \in AuthResponses :
          /\ LET did == create_client(Unwrap(reddit), resp)
             IN  IF did.out.kind = "Ok"
                 THEN /\ reddit' = Some(LoggedIn(Unwrap(reddit), did))
                      /\ last' = [did EXCEPT !.op = "Reddit::client_login", !.handed = "Reddit"]
                 ELSE /\ reddit' = None
                      /\ last' = [did EXCEPT !.op = "Reddit::client_login"]
          /\ UNCHANGED facade

\* Reddit::auth_subreddit: borrows the Reddit and clones its client.
RedditAuthSubreddit ==
    /\ Ready
    /\ IsSome(reddit)
    /\ facade = None
    /\ \E name \in SubredditNames :
          /\ facade' = Some(new_oauth(name, Unwrap(reddit)))
          /\ last' = [Local("Reddit::auth_subreddit") EXCEPT !.handed = "Subreddit"]
          /\ UNCHANGED reddit

\* The caller drops its Reddit.
RedditDrop ==
    /\ Ready
    /\ IsSome(reddit)
    /\ reddit' = None
    /\ last' = Local("drop")
    /\ UNCHANGED facade

\* The caller drops its facade.
FacadeDrop ==
    /\ Ready
    /\ IsSome(facade)
    /\ facade' = None
    /\ last' = Local("drop")
    /\ UNCHANGED reddit

----------------------------------------------------------------------------
(* Reading operations: `client.get(url).send().await?.json::<T>().await?` *)

GetJson(op, cfg, url, resp) ==
    IF ~HeaderValueOk(cfg.user_agent)
    THEN PanicsUnsent(op)
    ELSE IF resp.net = "failed"
    THEN Did(op, <<get(cfg, url)>>, resp, FromReqwest("send", resp))
    ELSE IF IsSome(JsonListing(resp.body))
    THEN Did(op, <<get(cfg, url)>>, resp, Ok(Unwrap(JsonListing(resp.body))))
    ELSE Did(op, <<get(cfg, url)>>, resp, FromReqwest("decode", resp))

\* A facade operation that changes no object.
Reads(did) == last' = did /\ UNCHANGED <<reddit, facade>>

----------------------------------------------------------------------------
(* Subreddit *)

\* Subreddit::moderators
Moderators ==
    /\ Ready
    /\ IsKind("Subreddit")
    /\ \E resp \in DataResponses :
          /\ Reads(GetJson("moderators", Self.cfg,
                           join_segments(Self.url, <<S_about, S_moderators, S_dotjson>>), resp))

\* Subreddit::about
SubredditAbout ==
    /\ Ready
    /\ IsKind("Subreddit")
    /\ \E resp \in DataResponses :
          /\ Reads(GetJson("about", Self.cfg,
                           join_segments(Self.url, <<S_about, S_dotjson>>), resp))

\* Subreddit::get_feed: the URL it requests.
FeedUrl(self, ty, limit, options) ==
    WithOptions(options,
                AppendPair(UrlJoin(self.url, ty \o S_dotjson), "limit", ToString(limit)))

\* Subreddit::get_feed
get_feed(op, self, ty, limit, options, resp) ==
    GetJson(op, self.cfg, FeedUrl(self, ty, limit, options), resp)

\* Subreddit::hot
Hot ==
    /\ Ready
    /\ IsKind("Subreddit")
    /\ \E limit \in Limits, options \in OptFeedOptions, resp \in DataResponses :
          /\ Reads(get_feed("hot", Self, S_hot, limit, options, resp))

\* Subreddit::rising
Rising ==
    /\ Ready
    /\ IsKind("Subreddit")
    /\ \E limit \in Limits, options \in OptFeedOptions, resp \in DataResponses :
          /\ Reads(get_feed("rising", Self, S_rising, limit, options, resp))

\* Subreddit::top
Top ==
    /\ Ready
    /\ IsKind("Subreddit")
    /\ \E limit \in Limits, options \in OptFeedOptions, resp \in DataResponses :
          /\ Reads(get_feed("top", Self, S_top, limit, options, resp))

\* Subreddit::latest
Latest ==
    /\ Ready
    /\ IsKind("Subreddit")
    /\ \E limit \in Limits, options \in OptFeedOptions, resp \in DataResponses :
          /\ Reads(get_feed("latest", Self, S_new, limit, options, resp))

\* Subreddit::get_comment_feed: the URL it requests.
CommentFeedUrl(self, ty, depth, limit) ==
    LET u0 == UrlJoin(self.url, ty \o S_dotjson)
        u1 == IF IsSome(depth) THEN AppendPair(u0, "depth", ToString(Unwrap(depth))) ELSE u0
    IN  IF IsSome(limit) THEN AppendPair(u1, "limit", ToString(Unwrap(limit))) ELSE u1

\* Subreddit::get_comment_feed: `url.path().contains("comments/")`
is_post_comments(url) == Contains(UrlPath(url), S_comments \o S_slash)

\* A decoding that takes the first listing of the array.
DecodeComments_First(post_comments, resp) ==
    IF post_comments
    THEN LET comments == JsonVec(resp.body)
         IN  IF ~IsSome(comments) THEN FromReqwest("decode", resp)
             ELSE IF Len(Unwrap(comments)) = 0 THEN Panicked
             ELSE Ok(Unwrap(comments)[1])
    ELSE IF IsSome(JsonListing(resp.body))
         THEN Ok(Unwrap(JsonListing(resp.body)))
         ELSE FromReqwest("decode", resp)

\* Subreddit::get_comment_feed: the decoding of the response body; a comment
\* listing, a decode error, or the panic of `comments.pop().unwrap()`.
DecodeComments(post_comments, resp) ==
    IF post_comments
    THEN LET comments == JsonVec(resp.body)
         IN  IF ~IsSome(comments) THEN FromReqwest("decode", resp)
             ELSE IF Len(Unwrap(comments)) = 0 THEN Panicked
             ELSE Ok(Unwrap(comments)[Len(Unwrap(comments))])
    ELSE IF IsSome(JsonListing(resp.body))
         THEN Ok(Unwrap(JsonListing(resp.body)))
         ELSE FromReqwest("decode", resp)

\* Subreddit::get_comment_feed
get_comment_feed(op, self, ty, depth, limit, resp) ==
    LET url == CommentFeedUrl(self, ty, depth, limit)
        mode == IF is_post_comments(url) THEN "PostScoped" ELSE "ForumScoped"
    IN  IF ~HeaderValueOk(self.cfg.user_agent)
        THEN PanicsUnsent(op)
        ELSE IF resp.net = "failed"
        THEN Did(op, <<get(self.cfg, url)>>, resp, FromReqwest("send", resp))
        ELSE IF IsErrorStatus(resp.status)
        THEN Did(op, <<get(self.cfg, url)>>, resp, FromReqwest("status", resp))
        ELSE [Did(op, <<get(self.cfg, url)>>, resp,
                  DecodeComments(is_post_comments(url), resp))
                EXCEPT !.mode = mode]

\* Subreddit::latest_comments
LatestComments ==
    /\ Ready
    /\ IsKind("Subreddit")
    /\ \E resp \in CommentResponses, w \in CommentWindows :
          LET depth == w[1]
              limit == w[2]
          IN  Reads(get_comment_feed("latest_comments", Self, S_comments, depth, limit, resp))

\* Subreddit::article_comments
ArticleComments ==
    /\ Ready
    /\ IsKind("Subreddit")
    /\ \E article \in ArticleIds, resp \in CommentResponses, w \in CommentWindows :
          LET depth == w[1]
              limit == w[2]
          IN  Reads(get_comment_feed("article_comments", Self,
                                        S_comments \o S_slash \o article, depth, limit, resp))

\* Subreddit::new, called by the application
NewSubreddit ==
    /\ Ready
    /\ facade = None
    /\ \E name \in SubredditNames :
          /\ facade' = Some(SubredditNew(name))
          /\ last' = [Local("Subreddit::new") EXCEPT !.handed = "Subreddit"]
          /\ UNCHANGED reddit

\* Subreddits::search
SubredditsSearch ==
    /\ Ready
    /\ \E name \in SearchTerms, limit \in OptLimits, options \in OptFeedOptions, resp \in DataResponses :
          LET u0 == UrlParseWithParams("www.reddit.com", S_slash \o S_subreddits \o S_slash \o S_search,
                                       <<Pair("q", name), RawJson>>)
              u1 == IF IsSome(limit) THEN AppendPair(u0, "limit", ToString(Unwrap(limit))) ELSE u0
          IN  Reads(GetJson("search", default_client, WithOptions(options, u1), resp))

----------------------------------------------------------------------------
(* User *)

\* User::overview, submitted, comments, about: the URL they request.
UserUrl(self, what, options) ==
    WithOptions(options, join_segments(self.url, <<self.name, what, S_dotjson>>))

\* User::new, called by the application
NewUser ==
    /\ Ready
    /\ facade = None
    /\ \E user \in Usernames :
          /\ facade' = Some(UserNew(user))
          /\ last' = [Local("User::new") EXCEPT !.handed = "User"]
          /\ UNCHANGED reddit

\* User::overview
UserOverview ==
    /\ Ready
    /\ IsKind("User")
    /\ \E options \in OptFeedOptions, resp \in DataResponses :
          /\ Reads(GetJson("user_overview", Self.cfg, UserUrl(Self, S_overview, options), resp))

\* User::submitted
UserSubmitted ==
    /\ Ready
    /\ IsKind("User")
    /\ \E options \in OptFeedOptions, resp \in DataResponses :
          /\ Reads(GetJson("user_submitted", Self.cfg, UserUrl(Self, S_submitted, options), resp))

\* User::comments
UserComments ==
    /\ Ready
    /\ IsKind("User")
    /\ \E options \in OptFeedOptions, resp \in DataResponses :
          /\ Reads(GetJson("user_comments", Self.cfg, UserUrl(Self, S_comments, options), resp))

\* User::about
UserAbout ==
    /\ Ready
    /\ IsKind("User")
    /\ \E options \in OptFeedOptions, resp \in DataResponses :
          /\ Reads(GetJson("user_about", Self.cfg, UserUrl(Self, S_about, options), resp))

----------------------------------------------------------------------------
(* Me *)

\* A get that sends its request a second time when the first send failed.
MeGet_Retry(op, self, url, resp) ==
    IF ~HeaderValueOk(self.cfg.user_agent)
    THEN PanicsUnsent(op)
    ELSE IF resp.net = "failed"
    THEN Did(op, <<get(self.cfg, url), get(self.cfg, url)>>, resp, FromReqwest("send", resp))
    ELSE Did(op, <<get(self.cfg, url)>>, resp, OkResponse(resp))

\* Me::get: Ok(response) for every response received.
MeGet(op, self, url, resp) ==
    IF ~HeaderValueOk(self.cfg.user_agent)
    THEN PanicsUnsent(op)
    ELSE IF resp.net = "failed"
    THEN Did(op, <<get(self.cfg, url)>>, resp, FromReqwest("send", resp))
    ELSE Did(op, <<get(self.cfg, url)>>, resp, OkResponse(resp))

\* Me::post: Ok(response) for every response received.
MePost(op, self, dest, resp) ==
    IF ~HeaderValueOk(self.cfg.user_agent)
    THEN PanicsUnsent(op)
    ELSE IF resp.net = "failed"
    THEN Did(op, <<form(post(self.cfg, build_oauth(dest)))>>, resp, FromReqwest("send", resp))
    ELSE Did(op, <<form(post(self.cfg, build_oauth(dest)))>>, resp, OkResponse(resp))

\* `.json::<T>().await?` on the response a call of Me::get or Me::post returned.
ThenJson(did) ==
    IF did.out.kind # "Ok" THEN did
    ELSE IF IsSome(JsonListing(did.resp.body))
    THEN [did EXCEPT !.out = Ok(Unwrap(JsonListing(did.resp.body)))]
    ELSE [did EXCEPT !.out = FromReqwest("decode", did.resp)]

\* Me::me
MeMe ==
    /\ Ready
    /\ IsKind("Me")
    /\ \E resp \in DataResponses :
          /\ Reads(ThenJson(MeGet("me", Self, join_segments(Self.url, <<S_api, S_v1, S_me>>), resp)))

\* Me::inbox
MeInbox ==
    /\ Ready
    /\ IsKind("Me")
    /\ \E resp \in DataResponses :
          /\ Reads(ThenJson(MeGet("inbox", Self, join_segments(Self.url, <<S_message, S_inbox>>), resp)))

\* Me::unread
MeUnread ==
    /\ Ready
    /\ IsKind("Me")
    /\ \E resp \in DataResponses :
          /\ Reads(ThenJson(MeGet("unread", Self, join_segments(Self.url, <<S_message, S_unread>>), resp)))

\* Me::saved, Me::upvoted, Me::downvoted: `self.config.username.as_ref().unwrap()`
\* panics before the URL is built.
MeListing(op, self, what, options, resp) ==
    IF ~IsSome(self.cfg.username)
    THEN PanicsUnsent(op)
    ELSE ThenJson(MeGet(op, self,
                        WithOptions(options,
                                    join_segments(self.url,
                                                  <<S_user, Unwrap(self.cfg.username),
                                                    what, S_dotjson>>)),
                        resp))

\* Me::saved
MeSaved ==
    /\ Ready
    /\ IsKind("Me")
    /\ \E options \in OptFeedOptions, resp \in DataResponses :
          /\ Reads(MeListing("saved", Self, S_saved, options, resp))

\* Me::upvoted
MeUpvoted ==
    /\ Ready
    /\ IsKind("Me")
    /\ \E options \in OptFeedOptions, resp \in DataResponses :
          /\ Reads(MeListing("upvoted", Self, S_upvoted, options, resp))

\* Me::downvoted
MeDownvoted ==
    /\ Ready
    /\ IsKind("Me")
    /\ \E options \in OptFeedOptions, resp \in DataResponses :
          /\ Reads(MeListing("downvoted", Self, S_downvoted, options, resp))

S_api_submit == <<"a", "p", "i", "/", "s", "u", "b", "m", "i", "t">>
S_api_compose == <<"a", "p", "i", "/", "c", "o", "m", "p", "o", "s", "e">>
S_api_read_message == <<"a", "p", "i", "/", "r", "e", "a", "d", "_", "m", "e", "s", "s", "a", "g", "e">>
S_api_unread_message == <<"a", "p", "i", "/", "u", "n", "r", "e", "a", "d", "_", "m", "e", "s", "s", "a", "g", "e">>
S_api_comment == <<"a", "p", "i", "/", "c", "o", "m", "m", "e", "n", "t">>
S_api_editusertext == <<"a", "p", "i", "/", "e", "d", "i", "t", "u", "s", "e", "r", "t", "e", "x", "t">>
S_api_friend == <<"/", "a", "p", "i", "/", "f", "r", "i", "e", "n", "d">>
S_api_unfriend == <<"/", "a", "p", "i", "/", "u", "n", "f", "r", "i", "e", "n", "d">>
S_revoke_token == <<"/", "a", "p", "i", "/", "v", "1", "/", "r", "e", "v", "o", "k", "e", "_", "t", "o", "k", "e", "n">>

\* Me::submit_link
MeSubmitLink ==
    /\ Ready
    /\ IsKind("Me")
    /\ \E resp \in DataResponses :
          /\ Reads(MePost("submit_link", Self, S_api_submit, resp))

\* Me::submit_text
MeSubmitText ==
    /\ Ready
    /\ IsKind("Me")
    /\ \E resp \in DataResponses :
          /\ Reads(MePost("submit_text", Self, S_api_submit, resp))

\* Me::submit_richtext
MeSubmitRichtext ==
    /\ Ready
    /\ IsKind("Me")
    /\ \E resp \in DataResponses :
          /\ Reads(MePost("submit_richtext", Self, S_api_submit, resp))

\* Me::compose_message
MeComposeMessage ==
    /\ Ready
    /\ IsKind("Me")
    /\ \E resp \in DataResponses :
          /\ Reads(MePost("compose_message", Self, S_api_compose, resp))

\* Me::mark_read
MeMarkRead ==
    /\ Ready
    /\ IsKind("Me")
    /\ \E resp \in DataResponses :
          /\ Reads(MePost("mark_read", Self, S_api_read_message, resp))

\* Me::mark_unread
MeMarkUnread ==
    /\ Ready
    /\ IsKind("Me")
    /\ \E resp \in DataResponses :
          /\ Reads(MePost("mark_unread", Self, S_api_unread_message, resp))

\* Me::comment
MeComment ==
    /\ Ready
    /\ IsKind("Me")
    /\ \E resp \in DataResponses :
          /\ Reads(MePost("comment", Self, S_api_comment, resp))

\* Me::edit
MeEdit ==
    /\ Ready
    /\ IsKind("Me")
    /\ \E resp \in DataResponses :
          /\ Reads(MePost("edit", Self, S_api_editusertext, resp))

\* Me::add_subreddit_friend
MeAddSubredditFriend ==
    /\ Ready
    /\ IsKind("Me")
    /\ \E sub \in SubredditNames, resp \in DataResponses :
          /\ Reads(ThenJson(MePost("add_subreddit_friend", Self,
                                   S_r \o S_slash \o sub \o S_api_friend, resp)))

\* Me::remove_subreddit_friend
MeRemoveSubredditFriend ==
    /\ Ready
    /\ IsKind("Me")
    /\ \E sub \in SubredditNames, resp \in DataResponses :
          /\ Reads(ThenJson(MePost("remove_subreddit_friend", Self,
                                   S_r \o S_slash \o sub \o S_api_unfriend, resp)))

\* A logout that takes every 2xx status for a success.
logout_Any2xx(self, resp) ==
    LET request == form(basic_auth(post(self.cfg, UrlParse("www.reddit.com", S_revoke_token))))
    IN  IF ~HeaderValueOk(self.cfg.user_agent)
        THEN PanicsUnsent("logout")
        ELSE IF resp.net = "failed"
        THEN Did("logout", <<request>>, resp, FromReqwest("send", resp))
        ELSE IF resp.status >= 200 /\ resp.status <= 299
        THEN Did("logout", <<request>>, resp, Ok("unit"))
        ELSE Did("logout", <<request>>, resp, ErrStatus(resp))

\* Me::logout: what the call did.
logout(self, resp) ==
    LET request == form(basic_auth(post(self.cfg, UrlParse("www.reddit.com", S_revoke_token))))
    IN  IF ~HeaderValueOk(self.cfg.user_agent)
        THEN PanicsUnsent("logout")
        ELSE IF resp.net = "failed"
        THEN Did("logout", <<request>>, resp, FromReqwest("send", resp))
        ELSE IF resp.status = 204
        THEN Did("logout", <<request>>, resp, Ok("unit"))
        ELSE Did("logout", <<request>>, resp, ErrStatus(resp))

\* Me::logout: consumes the Me.
MeLogout ==
    /\ Ready
    /\ IsKind("Me")
    /\ \E resp \in RevokeResponses :
          /\ last' = logout(Self, resp)
          /\ facade' = None
          /\ UNCHANGED reddit

Next ==
    \/ RedditNew
    \/ RedditUsername
    \/ RedditPassword
    \/ RedditLogin
    \/ RedditSubreddit
    \/ RedditClientLoginOp
    \/ RedditAuthSubreddit
    \/ RedditDrop
    \/ FacadeDrop
    \/ NewSubreddit
    \/ Moderators
    \/ SubredditAbout
    \/ Hot
    \/ Rising
    \/ Top
    \/ Latest
    \/ LatestComments
    \/ ArticleComments
    \/ SubredditsSearch
    \/ NewUser
    \/ UserOverview
    \/ UserSubmitted
    \/ UserComments
    \/ UserAbout
    \/ MeMe
    \/ MeInbox
    \/ MeUnread
    \/ MeSaved
    \/ MeUpvoted
    \/ MeDownvoted
    \/ MeSubmitLink
    \/ MeSubmitText
    \/ MeSubmitRichtext
    \/ MeComposeMessage
    \/ MeMarkRead
    \/ MeMarkUnread
    \/ MeComment
    \/ MeEdit
    \/ MeAddSubredditFriend
    \/ MeRemoveSubredditFriend
    \/ MeLogout
    \/ TakeResult

Spec == Init /\ [][Next]_vars

----------------------------------------------------------------------------
(* Properties *)

LoginOps == {"Reddit::login", "Reddit::subreddit", "Reddit::client_login"}

\* The operations that send nothing.
LocalOps ==
    {"idle", "drop", "Reddit::new", "Reddit::username", "Reddit::password",
     "Reddit::auth_subreddit", "Subreddit::new", "User::new"}

AnsweredWith(status) == last.resp.net = "answered" /\ last.resp.status = status

\* The body is the object {error: e} and nothing else.
ErrorShaped(body) ==
    body.shape = "object" /\ IsSome(body.error) /\ ~IsSome(body.access_token)

HasBearer(req) ==
    \E i \in 1..Len(req.headers) :
        req.headers[i].name = "authorization" /\ req.headers[i].value[1] = "Bearer"

CarriesToken(req, token) ==
    \E i \in 1..Len(req.headers) : req.headers[i] = BearerOf(token)

\* The session whose get or post builds the requests of the call named op,
\* made in the current state.
SessionOf(op) ==
    IF op \in LoginOps THEN Unwrap(reddit)
    ELSE IF op = "search" THEN default_client
    ELSE Unwrap(facade).cfg

MissingCredentials(cfg) == ~IsSome(cfg.username) \/ ~IsSome(cfg.password)

\* C1: a login (Reddit::login, Reddit::subreddit, Reddit::client_login) made
\* with the username or the password absent returns the error value
\* MissingCredentials and sends no request.
C1_MissingCredentialsIsReturned ==
    [][(/\ Ready
        /\ IsSome(reddit)
        /\ MissingCredentials(Unwrap(reddit))
        /\ last'.op \in LoginOps)
       => (/\ last'.out.kind = "Err"
           /\ last'.out.err = "MissingCredentials"
           /\ last'.reqs = <<>>)]_vars

\* C2: a login answered with status 200 and the body {error: e} returns
\* Auth(e), stores no token in the session and hands no Me, Subreddit or
\* Reddit to the caller.
C2_ErrorBodyIsAuthError ==
    (last.op \in LoginOps /\ AnsweredWith(200) /\ ErrorShaped(last.resp.body))
    => (/\ last.out = ErrAuth(Unwrap(last.resp.body.error))
        /\ last.stored = None
        /\ last.handed = "none"
        /\ reddit = None
        /\ (last.op # "Reddit::client_login" => facade = None))

C2_Witness ==
    /\ last.op = "Reddit::login"
    /\ AnsweredWith(200)
    /\ ErrorShaped(last.resp.body)
    /\ last.out.err = "Auth"

\* C3: a login answered with a status other than 200 returns a Status error
\* carrying that response, whatever the body is, stores no token and hands
\* nothing to the caller.
C3_Non200IsStatusError ==
    (last.op \in LoginOps /\ last.resp.net = "answered" /\ last.resp.status # 200)
    => (/\ last.out = ErrStatus(last.resp)
        /\ last.stored = None
        /\ last.handed = "none"
        /\ reddit = None)

C3_Witness ==
    /\ last.op = "Reddit::client_login"
    /\ AnsweredWith(201)
    /\ IsSome(last.resp.body.access_token)
    /\ last.out.err = "Status"

\* C4: every request a call sends, built by RedditClient::get or post, has
\* the session's user agent as its user-agent header and has a bearer
\* credential, the session's token, exactly when the session holds a token;
\* a call on a session without a token that does not panic sends its request.
C4_UserAgentAlwaysBearerIffToken ==
    [][(Ready /\ last'.op \notin LocalOps)
       => (/\ \A i \in 1..Len(last'.reqs) :
                 LET req == last'.reqs[i]
                     cfg == SessionOf(last'.op)
                 IN  /\ req.headers[1] = Header("user-agent", cfg.user_agent)
                     /\ HasBearer(req) <=> IsSome(cfg.access_token)
                     /\ IsSome(cfg.access_token)
                           => CarriesToken(req, Unwrap(cfg.access_token))
           /\ (~IsSome(SessionOf(last'.op).access_token) /\ last'.out.kind # "Panic")
                 => Len(last'.reqs) = 1)]_vars

C4_Witness ==
    /\ last.op = "hot"
    /\ Len(last.reqs) = 1
    /\ HasHeader(last.reqs[1], "user-agent")
    /\ ~HasBearer(last.reqs[1])
    /\ last.resp.net = "answered"

\* Query keys of the listing parameters a caller supplies.
CallerKeys == {"limit", "depth", "after", "before", "count", "t"}

RawJsonFirst(query) ==
    \E i \in 1..Len(query) :
        /\ query[i] = RawJson
        /\ \A j \in 1..(i - 1) : query[j].k \notin CallerKeys

\* C5: every GET request sent has raw_json=1 in its query string, before any
\* parameter supplied by the caller.
C5_EveryGetHasRawJson ==
    \A i \in 1..Len(last.reqs) :
        last.reqs[i].method = "GET" => RawJsonFirst(last.reqs[i].url.query)

\* C6: outside login, a call whose request is answered with a 4xx or 5xx
\* status returns a Status error carrying that response.
C6_ErrorStatusIsStatusError ==
    (/\ last.op \notin LoginOps
     /\ last.resp.net = "answered"
     /\ IsErrorStatus(last.resp.status))
    => (/\ last.out.kind = "Err"
        /\ last.out.err = "Status"
        /\ last.out.status = last.resp.status)

C8_EmptyArrayIsParseError ==
    (/\ last.op = "article_comments"
     /\ last.resp.net = "answered"
     /\ ~IsErrorStatus(last.resp.status)
     /\ last.resp.body = ArrayBody(<<>>))
    => (last.out.kind = "Err" /\ last.out.err = "Parse")

\* C9: a comment request decoded as post-scoped whose body is an array of one
\* or more listings ending in L returns what a forum-scoped request whose
\* body is the object L returns: the last element, the others discarded.
C9_PostScopedEqualsForumScoped ==
    (/\ last.mode = "PostScoped"
     /\ last.resp.body.shape = "array"
     /\ Len(last.resp.body.items) >= 1)
    => LET L == last.resp.body.items[Len(last.resp.body.items)]
       IN  /\ last.out = DecodeComments(FALSE, Answered(last.resp.status, ListingBody(L)))
           /\ last.out = Ok(L)

C9_Witness ==
    /\ last.op = "article_comments"
    /\ last.mode = "PostScoped"
    /\ last.resp.body = ArrayBody(<<"L1", "L2">>)
    /\ last.out = Ok("L2")

\* C10: latest_comments is decoded as ForumScoped and article_comments as
\* PostScoped, for every subreddit name and article id.
C10_ModeFollowsEndpoint ==
    /\ (last.op = "latest_comments" /\ last.mode # "none") => last.mode = "ForumScoped"
    /\ (last.op = "article_comments" /\ last.mode # "none") => last.mode = "PostScoped"

\* C11: no call of any operation panics: every call ends by returning a
\* result value (Ok or Err), for every input and every response.
C11_NoOperationPanics == last.out.kind \in {"Ok", "Err"}

C13_LogoutOkIff204 ==
    (last.op = "logout" /\ last.resp.net = "answered")
    => (/\ last.out.kind = "Ok" <=> last.resp.status = 204
        /\ last.resp.status # 204 => last.out = ErrStatus(last.resp))

C13_Witness ==
    /\ last.op = "logout"
    /\ AnsweredWith(200)
    /\ last.out.err = "Status"
    /\ facade = None

\* The operations of a Subreddit that send a request.
SubredditOps ==
    {"moderators", "about", "hot", "rising", "top", "latest",
     "latest_comments", "article_comments"}

\* C16: the Subreddit that Reddit::auth_subreddit returns is authenticated:
\* it holds a token, the token of the Reddit it was made from, the call sends
\* no request and leaves the Reddit in place, and every request a Subreddit
\* made from a Reddit sends carries a bearer credential.
C16_AuthSubredditIsAuthenticated ==
    /\ last.op = "Reddit::auth_subreddit"
          => (/\ IsSome(reddit)
              /\ IsKind("Subreddit")
              /\ IsSome(Self.cfg.access_token)
              /\ Self.cfg.access_token = Unwrap(reddit).access_token
              /\ last.reqs = <<>>)
    /\ (last.op \in SubredditOps /\ Self.cfg # default_client)
          => \A i \in 1..Len(last.reqs) : HasBearer(last.reqs[i])

\* C17: a login answered with status 200 and a body that has an access_token
\* (a string), with or without an error field beside it, succeeds and the
\* session it returns holds exactly that access_token; a login returns Auth
\* only for a body without access_token.
C17_SuccessShapeFirst ==
    /\ (last.op \in LoginOps /\ AnsweredWith(200) /\ IsSome(last.resp.body.access_token))
          => (/\ last.out.kind = "Ok"
              /\ last.stored = last.resp.body.access_token
              /\ IF last.op = "Reddit::client_login"
                 THEN IsSome(reddit) /\ Unwrap(reddit).access_token = last.stored
                 ELSE IsSome(facade) /\ Self.cfg.access_token = last.stored)
    /\ (last.op \in LoginOps /\ last.out.err = "Auth")
          => (/\ AnsweredWith(200)
              /\ ~IsSome(last.resp.body.access_token)
              /\ IsSome(last.resp.body.error))

C17_Witness ==
    /\ last.op = "Reddit::login"
    /\ AnsweredWith(200)
    /\ last.resp.body.access_token = Some("tok2")
    /\ IsSome(last.resp.body.error)
    /\ last.out.kind = "Ok"
    /\ IsKind("Me")
    /\ Self.cfg.access_token = Some("tok2")

----------------------------------------------------------------------------
(* Listing options as a function of the options and the URL: `last` holds  *)
(* one application of `options.build_url(&mut url)`.                       *)

\* The URL https://x/r/y/hot.json
ExampleUrl == UrlParse("x", S_slash \o S_r \o S_slash \o <<"y">> \o S_slash \o S_hot \o S_dotjson)

AllFeedOptions ==
    { FeedOption(limit, after, before, count, period) :
        limit \in {None, Some(5), Some(25)},
        after \in {None, Some("t3_abc")},
        before \in {None, Some("t3_xyz")},
        count \in {None, Some(10)},
        period \in {None} \cup {Some(t) : t \in {"month", "all"}} }

\* The URLs the operations have built when they apply their options.
OptionUrls ==
    { ExampleUrl,
      join_segments(UrlParse("oauth.reddit.com", S_slash),
                    <<S_user, S_alice, S_saved, S_dotjson>>),
      UserUrl(UserNew(S_alice), S_comments, None),
      AppendPair(UrlParseWithParams("www.reddit.com",
                                    S_slash \o S_subreddits \o S_slash \o S_search,
                                    <<Pair("q", "rust"), RawJson>>),
                 "limit", ToString(25)),
      FeedUrl(SubredditNew(S_rust), S_hot, 25, None) }

OptionsInit ==
    /\ reddit = None
    /\ facade = None
    /\ last \in { [op |-> "build_url", options |-> options, url |-> url, out |-> None] :
                    options \in {None} \cup {Some(o) : o \in AllFeedOptions},
                    url \in OptionUrls }

\* `if let Some(options) = options { options.build_url(&mut url); }`
BuildUrl ==
    /\ last.op = "build_url"
    /\ last.out = None
    /\ last' = [last EXCEPT !.out = Some(WithOptions(last.options, last.url))]
    /\ UNCHANGED <<reddit, facade>>

OptionsNext == BuildUrl

OptionsSpec == OptionsInit /\ [][OptionsNext]_vars

\* The query pairs of the fields of o that are set, in the order limit,
\* after, before, count, t.
SetFields(o) ==
    LET field(k, v) == [k |-> k, v |-> v]
        fields == <<field("limit", IF IsSome(o.limit) THEN Some(ToString(Unwrap(o.limit))) ELSE None),
                    field("after", o.after),
                    field("before", o.before),
                    field("count", IF IsSome(o.count) THEN Some(ToString(Unwrap(o.count))) ELSE None),
                    field("t", o.period)>>
        IsSet(f) == IsSome(f.v)
        set == SelectSeq(fields, IsSet)
    IN  [i \in 1..Len(set) |-> Pair(set[i].k, Unwrap(set[i].v))]

\* C14: build_url adds to the query one pair for each field of the options
\* that is set and none for an unset field, in the order limit, after, before,
\* count, t; limit 25 and after t3_abc applied to https://x/r/y/hot.json give
\* https://x/r/y/hot.json?limit=25&after=t3_abc.
C14_OptionsAddSetFieldsInOrder ==
    (last.op = "build_url" /\ IsSome(last.out) /\ IsSome(last.options))
    => LET o == Unwrap(last.options)
           before == last.url.query
           after == Unwrap(last.out).query
       IN  /\ SubSeq(after, Len(before) + 1, Len(after)) = SetFields(o)
           /\ (o = FeedOption(Some(25), Some("t3_abc"), None, None, None)
               /\ last.url = ExampleUrl)
                 => Unwrap(last.out) =
                       [scheme |-> "https", host |-> "x",
                        path |-> <<S_r, <<"y">>, S_hot \o S_dotjson>>,
                        query |-> <<Pair("limit", "25"), Pair("after", "t3_abc")>>]

C14_Witness ==
    /\ last.op = "build_url"
    /\ last.url = ExampleUrl
    /\ last.options = Some(FeedOption(Some(25), Some("t3_abc"), None, None, None))
    /\ IsSome(last.out)
    /\ Unwrap(last.out).query = <<Pair("limit", "25"), Pair("after", "t3_abc")>>

====
